---- MODULE Spec2Model ----
(***************************************************************************)
(* Model of toponymy/llm_wrappers.py: four adapters (LlamaCppWrapper,      *)
(* CohereWrapper, AnthropicWrapper, OpenAIWrapper) over LLM backends, each *)
(* with a constructor, generate_topic_name and                             *)
(* generate_topic_cluster_names.                                           *)
(*                                                                         *)
(* Python values are records [type, items]:                                *)
(*   string  items = the characters        array  items = the elements     *)
(*   object  items = <<key, value>> pairs in insertion order               *)
(*   number / null  items = <<>>                                           *)
(* A Python str used as a dict key or inside the text cleaning functions   *)
(* is the bare sequence of its characters.                                 *)
(***************************************************************************)
EXTENDS Naturals, Sequences, FiniteSets, TLC

(* ------------------------------ bounds --------------------------------- *)

\* longest completion text fed to LlamaCppWrapper.generate_topic_name
MaxTextLen == 3
\* longest old_names list
MaxNames == 2
\* longest decoded JSON array answered by a backend
MaxEntries == 3

(* ------------------------- characters and str -------------------------- *)

\* U+001C, one of the characters str.split() treats as whitespace although
\* string.whitespace does not list it (also U+001D..U+001F, U+0085, U+00A0)
FS == "\\x1c"

\* string.punctuation (the members that occur in the model's texts and keys)
punctuation == {".", "!", "_", ",", ":", ";", "?", "-"}

\* string.whitespace (space, tab, newline, return, formfeed; vertical tab
\* cannot be written as a TLA+ string and is not drawn by the model)
whitespace == {" ", "\t", "\n", "\r", "\f"}

\* str.isspace(), the separator test of str.split() without arguments
isspace(c) == c \in whitespace \cup {FS}

\* the characters completion texts are drawn from
TextChars == {"a", "B", ".", " ", "\n", "\t", FS}

lower_char(c) ==
    CASE c = "A" -> "a"
      [] c = "B" -> "b"
      [] c = "X" -> "x"
      [] OTHER -> c

upper_char(c) ==
    CASE c = "a" -> "A"
      [] c = "b" -> "B"
      [] c = "x" -> "X"
      [] OTHER -> c

\* str.lower()
lower(s) == [i \in 1..Len(s) |-> lower_char(s[i])]

\* str.capitalize(): first character upper-cased, the rest lower-cased
capitalize(s) ==
    [i \in 1..Len(s) |-> IF i = 1 THEN upper_char(s[i]) ELSE lower_char(s[i])]

\* str.lstrip(chars)
RECURSIVE lstrip(_, _)
lstrip(s, chars) ==
    IF s # <<>> /\ Head(s) \in chars THEN lstrip(Tail(s), chars) ELSE s

\* str.rstrip(chars)
RECURSIVE rstrip(_, _)
rstrip(s, chars) ==
    IF s # <<>> /\ s[Len(s)] \in chars
    THEN rstrip(SubSeq(s, 1, Len(s) - 1), chars)
    ELSE s

\* str.strip(chars)
strip(s, chars) == rstrip(lstrip(s, chars), chars)

\* s.split(sep)[0]: the part of s before the first occurrence of sep
RECURSIVE split_first(_, _)
split_first(s, sep) ==
    IF s = <<>> \/ Head(s) = sep
    THEN <<>>
    ELSE <<Head(s)>> \o split_first(Tail(s), sep)

\* str.split() without arguments: the maximal runs of non-whitespace
RECURSIVE split(_, _)
split(s, word) ==
    IF s = <<>>
    THEN IF word = <<>> THEN <<>> ELSE <<word>>
    ELSE IF isspace(Head(s))
         THEN (IF word = <<>> THEN <<>> ELSE <<word>>) \o split(Tail(s), <<>>)
         ELSE split(Tail(s), Append(word, Head(s)))

\* " ".join(words)
RECURSIVE join(_)
join(words) ==
    IF words = <<>> THEN <<>>
    ELSE IF Len(words) = 1 THEN Head(words)
    ELSE Head(words) \o <<" ">> \o join(Tail(words))

\* string.capwords(s): split on whitespace, capitalize each word, join with
\* single spaces
capwords(s) ==
    LET words == split(s, <<>>)
    IN  join([i \in 1..Len(words) |-> capitalize(words[i])])

(* ----------------------------- Python values --------------------------- *)

Str(chars) == [type |-> "string", items |-> chars]
List(elems) == [type |-> "array", items |-> elems]
Dict(pairs) == [type |-> "object", items |-> pairs]
Num == [type |-> "number", items |-> <<>>]
Null == [type |-> "null", items |-> <<>>]

\* the outcome of evaluating an expression or a block: a value, or an
\* exception named by its class
Ok(v) == [raised |-> "", value |-> v]
Raise(e) == [raised |-> e, value |-> Null]

\* the text of a backend answer to a JSON prompt: either the serialisation
\* of a JSON document or text that is not JSON
JsonText(doc) == [decodable |-> TRUE, doc |-> doc]
NotJson == [decodable |-> FALSE, doc |-> Null]

\* json.loads(text)
json_loads(text) ==
    IF text.decodable THEN Ok(text.doc) ELSE Raise("JSONDecodeError")

topic_name == <<"t", "o", "p", "i", "c", "_", "n", "a", "m", "e">>
topic_specificity == <<"t", "o", "p", "i", "c", "_", "s", "p", "e", "c">>
less_specific_topic_name == <<"l", "e", "s", "s", "_", "s", "p", "e", "c">>

\* the pairs of a dict whose key is key
lookup(pairs, key) == SelectSeq(pairs, LAMBDA p : p[1] = key)

\* obj[key] for a str key: KeyError on a dict without it, TypeError on
\* a list, str, number or None
getitem(obj, key) ==
    IF obj.type = "object"
    THEN IF lookup(obj.items, key) = <<>>
         THEN Raise("KeyError")
         ELSE Ok(lookup(obj.items, key)[1][2])
    ELSE Raise("TypeError")

\* iter(obj) as zip() performs it: the elements of a list, the keys of a
\* dict, the characters of a str; TypeError on a number or None
iter(obj) ==
    CASE obj.type = "array" -> Ok(obj.items)
      [] obj.type = "object" ->
            Ok([i \in 1..Len(obj.items) |-> Str(obj.items[i][1])])
      [] obj.type = "string" ->
            Ok([i \in 1..Len(obj.items) |-> Str(<<obj.items[i]>>)])
      [] OTHER -> Raise("TypeError")

\* list(name_mapping.keys())[0]
first_key(name_mapping) ==
    IF name_mapping.type # "object" THEN Raise("AttributeError")
    ELSE IF name_mapping.items = <<>> THEN Raise("IndexError")
    ELSE Ok(name_mapping.items[1][1])

\* list(name_mapping.values())[0]
first_value(name_mapping) ==
    IF name_mapping.type # "object" THEN Raise("AttributeError")
    ELSE IF name_mapping.items = <<>> THEN Raise("IndexError")
    ELSE Ok(name_mapping.items[1][2])

\* name_mapping.values()[0]: a dict view cannot be subscripted
values_subscript(name_mapping) ==
    IF name_mapping.type # "object" THEN Raise("AttributeError")
    ELSE Raise("TypeError")

Min(a, b) == IF a < b THEN a ELSE b

\* evaluating the arguments of a logger.warn(...) call, left to right: a
\* name the function never assigns raises NameError, a local of the function
\* that is not bound yet raises UnboundLocalError
logger_warn(args, locals, bound) ==
    LET missing == SelectSeq(args, LAMBDA a : a \notin bound)
    IN  IF missing = <<>> THEN ""
        ELSE IF Head(missing) \in locals THEN "UnboundLocalError"
        ELSE "NameError"

(* ------------------------------ the backend ---------------------------- *)

\* what a backend call does: it raises (transport or API failure), or it
\* returns a response carrying a text
Failure == [kind |-> "raise", text |-> <<>>]
Response(text) == [kind |-> "text", text |-> text]

\* the backend entry points that carry a naming prompt
NamingEndpoints ==
    {"llm", "chat", "messages.create", "chat.completions.create"}

\* result of a method: the backend entry points it called, in order, the
\* exception that escaped it ("" when it returned) and the returned value
Returned(calls, v) == [calls |-> calls, raised |-> "", value |-> v]
Escaped(calls, e) == [calls |-> calls, raised |-> e, value |-> Null]

(* ---------------------------- LlamaCppWrapper -------------------------- *)

LlamaCppWrapper_init(params) ==
    IF ~params.path_exists THEN Escaped(<<>>, "ValueError")
    ELSE IF ~params.model_ok THEN Escaped(<<"Llama">>, "ValueError")
    ELSE Returned(<<"Llama">>, Null)

\* variant: the completion is capitalised without stripping punctuation
LlamaCppWrapper_generate_topic_name_unstripped(response) ==
    IF response.kind = "raise" THEN Escaped(<<"llm">>, "BackendError")
    ELSE
      LET text == response.text
          line == IF \E i \in 1..Len(text) : text[i] = "\n"
                  THEN split_first(lstrip(text, {"\n", " "}), "\n")
                  ELSE text
      IN  Returned(<<"llm">>, Str(capwords(line)))

LlamaCppWrapper_generate_topic_name(response) ==
    IF response.kind = "raise" THEN Escaped(<<"llm">>, "BackendError")
    ELSE
      LET text == response.text
          line == IF \E i \in 1..Len(text) : text[i] = "\n"
                  THEN split_first(lstrip(text, {"\n", " "}), "\n")
                  ELSE text
      IN  Returned(<<"llm">>,
                   Str(capwords(strip(line, punctuation \cup whitespace))))

\* variant: a mapping under a key that does not match is accepted
RECURSIVE rename_loop_accepting(_, _, _, _)
rename_loop_accepting(old_names, topic_name_info, i, result) ==
    IF i > Min(Len(old_names), Len(topic_name_info)) THEN Ok(List(result))
    ELSE
      LET old_name == old_names[i]
          name_mapping == topic_name_info[i]
          key == first_key(name_mapping)
      IN  IF key.raised # "" THEN key
          ELSE IF lower(old_name.items) = lower(key.value)
          THEN values_subscript(name_mapping)
          ELSE rename_loop_accepting(old_names, topic_name_info, i + 1,
                  Append(result, first_value(name_mapping).value))

\* the loop of LlamaCppWrapper, AnthropicWrapper and OpenAIWrapper over
\* zip(old_names, topic_name_info), from position i on
RECURSIVE rename_loop(_, _, _, _)
rename_loop(old_names, topic_name_info, i, result) ==
    IF i > Min(Len(old_names), Len(topic_name_info)) THEN Ok(List(result))
    ELSE
      LET old_name == old_names[i]
          name_mapping == topic_name_info[i]
          key == first_key(name_mapping)
      IN  IF key.raised # "" THEN key
          ELSE IF lower(old_name.items) = lower(key.value)
          THEN values_subscript(name_mapping)
          ELSE rename_loop(old_names, topic_name_info, i + 1,
                           Append(result, old_name))

\* the try block shared by the three adapters: decode the text, then loop
rename_block(response, old_names) ==
    IF response.kind = "raise" THEN Raise("BackendError")
    ELSE
      LET topic_name_info == json_loads(response.text)
      IN  IF topic_name_info.raised # "" THEN topic_name_info
          ELSE LET entries == iter(topic_name_info.value)
               IN  IF entries.raised # "" THEN entries
                   ELSE rename_loop(old_names, entries.value, 1, <<>>)

LlamaCppWrapper_generate_topic_cluster_names(response, old_names) ==
    LET block == rename_block(response, old_names)
    IN  IF block.raised # ""
        THEN Returned(<<"llm">>, List(old_names))
        ELSE Returned(<<"llm">>, block.value)

(* ----------------------------- CohereWrapper --------------------------- *)

\* variant: an unknown model name is not reported
CohereWrapper_init_unchecked(params) ==
    IF ~params.key_ok THEN Escaped(<<"models.get">>, "UnauthorizedError")
    ELSE Returned(<<"models.get">>, Null)

CohereWrapper_init(params) ==
    IF ~params.key_ok THEN Escaped(<<"models.get">>, "UnauthorizedError")
    ELSE IF ~params.model_ok
    THEN Escaped(<<"models.get", "models.list">>, "ValueError")
    ELSE Returned(<<"models.get">>, Null)

CohereWrapper_generate_topic_name(response) ==
    LET block ==
          IF response.kind = "raise" THEN Raise("BackendError")
          ELSE LET topic_name_info == json_loads(response.text)
               IN  IF topic_name_info.raised # "" THEN topic_name_info
                   ELSE getitem(topic_name_info.value, topic_name)
        bound == {"self", "prompt", "temperature"}
                 \cup (IF response.kind = "text"
                       THEN {"topic_name_info_raw"} ELSE {})
        warn == logger_warn(<<"e", "prompt", "topic_name_info_text">>,
                            {"topic_name_info_raw", "topic_name_info",
                             "topic_name"}, bound)
    IN  IF block.raised = "" THEN Returned(<<"chat">>, block.value)
        ELSE IF warn # "" THEN Escaped(<<"chat">>, warn)
        ELSE Returned(<<"chat">>, Str(<<>>))

\* the loop of CohereWrapper over zip(old_names, topic_name_info)
RECURSIVE CohereWrapper_rename_loop(_, _, _, _)
CohereWrapper_rename_loop(old_names, topic_name_info, i, result) ==
    IF i > Min(Len(old_names), Len(topic_name_info)) THEN List(result)
    ELSE
      LET old_name == old_names[i]
          name_mapping == topic_name_info[i]
          key == first_key(name_mapping)
          new_name ==
            IF key.raised # "" THEN old_name
            ELSE IF lower(old_name.items) = lower(key.value)
            THEN first_value(name_mapping).value
            ELSE first_value(name_mapping).value
      IN  CohereWrapper_rename_loop(old_names, topic_name_info, i + 1,
                                    Append(result, new_name))

\* variant: the failure path returns an empty list
CohereWrapper_generate_topic_cluster_names_empty(response, old_names) ==
    LET topic_name_info ==
          IF response.kind = "raise" THEN Raise("BackendError")
          ELSE json_loads(response.text)
    IN  IF topic_name_info.raised # ""
        THEN Returned(<<"chat">>, List(<<>>))
        ELSE LET entries == iter(topic_name_info.value)
             IN  IF entries.raised # ""
                 THEN Escaped(<<"chat">>, entries.raised)
                 ELSE Returned(<<"chat">>,
                        CohereWrapper_rename_loop(old_names, entries.value,
                                                  1, <<>>))

CohereWrapper_generate_topic_cluster_names(response, old_names) ==
    LET topic_name_info ==
          IF response.kind = "raise" THEN Raise("BackendError")
          ELSE json_loads(response.text)
        bound == {"self", "prompt", "old_names", "temperature", "e"}
                 \cup (IF response.kind = "text"
                       THEN {"topic_name_info_raw", "topic_name_info_text"}
                       ELSE {})
        warn == logger_warn(<<"e", "prompt", "topic_name_info_text">>,
                            {"topic_name_info_raw", "topic_name_info_text",
                             "topic_name_info", "e", "result"}, bound)
    IN  IF topic_name_info.raised # ""
        THEN IF warn # "" THEN Escaped(<<"chat">>, warn)
             ELSE Returned(<<"chat">>, List(old_names))
        ELSE LET entries == iter(topic_name_info.value)
             IN  IF entries.raised # ""
                 THEN Escaped(<<"chat">>, entries.raised)
                 ELSE Returned(<<"chat">>,
                        CohereWrapper_rename_loop(old_names, entries.value,
                                                  1, <<>>))

(* ---------------------------- AnthropicWrapper ------------------------- *)

AnthropicWrapper_init(params) == Returned(<<>>, Null)

\* variant: a failed request or an undecodable text is retried once
AnthropicWrapper_generate_topic_name_retry(response) ==
    LET block ==
          IF response.kind = "raise" THEN Raise("BackendError")
          ELSE LET topic_name_info == json_loads(response.text)
               IN  IF topic_name_info.raised # "" THEN topic_name_info
                   ELSE getitem(topic_name_info.value, topic_name)
    IN  IF block.raised = "" THEN Returned(<<"messages.create">>, block.value)
        ELSE Returned(<<"messages.create", "messages.create">>, Str(<<>>))

AnthropicWrapper_generate_topic_name(response) ==
    LET block ==
          IF response.kind = "raise" THEN Raise("BackendError")
          ELSE LET topic_name_info == json_loads(response.text)
               IN  IF topic_name_info.raised # "" THEN topic_name_info
                   ELSE getitem(topic_name_info.value, topic_name)
    IN  IF block.raised = "" THEN Returned(<<"messages.create">>, block.value)
        ELSE Returned(<<"messages.create">>, Str(<<>>))

AnthropicWrapper_generate_topic_cluster_names(response, old_names) ==
    LET block == rename_block(response, old_names)
    IN  IF block.raised # ""
        THEN Returned(<<"messages.create">>, List(old_names))
        ELSE Returned(<<"messages.create">>, block.value)

(* ------------------------------ OpenAIWrapper -------------------------- *)

OpenAIWrapper_init(params) == Returned(<<>>, Null)

\* variant: the first value of the decoded object is taken, whatever its key
OpenAIWrapper_generate_topic_name_first(response) ==
    LET block ==
          IF response.kind = "raise" THEN Raise("BackendError")
          ELSE LET topic_name_info == json_loads(response.text)
               IN  IF topic_name_info.raised # "" THEN topic_name_info
                   ELSE first_value(topic_name_info.value)
    IN  IF block.raised = ""
        THEN Returned(<<"chat.completions.create">>, block.value)
        ELSE Returned(<<"chat.completions.create">>, Str(<<>>))

OpenAIWrapper_generate_topic_name(response) ==
    LET block ==
          IF response.kind = "raise" THEN Raise("BackendError")
          ELSE LET topic_name_info == json_loads(response.text)
               IN  IF topic_name_info.raised # "" THEN topic_name_info
                   ELSE getitem(topic_name_info.value, topic_name)
        bound == {"self", "prompt", "temperature", "e", "topic_name"}
                 \cup (IF response.kind = "text"
                       THEN {"topic_name_info_raw", "topic_name_info_text"}
                       ELSE {})
        warn == logger_warn(<<"e", "prompt", "topic_name_info_text">>,
                            {"topic_name_info_raw", "topic_name_info_text",
                             "topic_name_info", "topic_name", "e"}, bound)
    IN  IF block.raised = ""
        THEN Returned(<<"chat.completions.create">>, block.value)
        ELSE IF warn # "" THEN Escaped(<<"chat.completions.create">>, warn)
        ELSE Returned(<<"chat.completions.create">>, Str(<<>>))

OpenAIWrapper_generate_topic_cluster_names(response, old_names) ==
    LET block == rename_block(response, old_names)
    IN  IF block.raised # ""
        THEN Returned(<<"chat.completions.create">>, List(old_names))
        ELSE Returned(<<"chat.completions.create">>, block.value)

(* --------------------------- method dispatch --------------------------- *)

Classes ==
    {"LlamaCppWrapper", "CohereWrapper", "AnthropicWrapper", "OpenAIWrapper"}

Hosted == {"CohereWrapper", "AnthropicWrapper", "OpenAIWrapper"}

init(cls, params) ==
    CASE cls = "LlamaCppWrapper" -> LlamaCppWrapper_init(params)
      [] cls = "CohereWrapper" -> CohereWrapper_init(params)
      [] cls = "AnthropicWrapper" -> AnthropicWrapper_init(params)
      [] cls = "OpenAIWrapper" -> OpenAIWrapper_init(params)

generate_topic_name(cls, response) ==
    CASE cls = "LlamaCppWrapper" ->
            LlamaCppWrapper_generate_topic_name(response)
      [] cls = "CohereWrapper" ->
            CohereWrapper_generate_topic_name(response)
      [] cls = "AnthropicWrapper" ->
            AnthropicWrapper_generate_topic_name(response)
      [] cls = "OpenAIWrapper" ->
            OpenAIWrapper_generate_topic_name(response)

generate_topic_cluster_names(cls, response, names) ==
    CASE cls = "LlamaCppWrapper" ->
            LlamaCppWrapper_generate_topic_cluster_names(response, names)
      [] cls = "CohereWrapper" ->
            CohereWrapper_generate_topic_cluster_names(response, names)
      [] cls = "AnthropicWrapper" ->
            AnthropicWrapper_generate_topic_cluster_names(response, names)
      [] cls = "OpenAIWrapper" ->
            OpenAIWrapper_generate_topic_cluster_names(response, names)

(* ------------------------------ the inputs ----------------------------- *)

BoundedSeq(S, n) == UNION {[1..k -> S] : k \in 0..n}

\* constructor arguments as the backend judges them: the model path exists,
\* the API key is authorized, the model (file or name) is known
ParamsOf(cls) ==
    IF cls = "LlamaCppWrapper"
    THEN {[path_exists |-> p, key_ok |-> TRUE, model_ok |-> m] :
             p \in BOOLEAN, m \in BOOLEAN}
    ELSE {[path_exists |-> TRUE, key_ok |-> k, model_ok |-> m] :
             k \in BOOLEAN, m \in BOOLEAN}

Invalid(params) ==
    ~params.path_exists \/ ~params.key_ok \/ ~params.model_ok

\* completion texts of the local model
Completions == BoundedSeq(TextChars, MaxTextLen)

neural == <<"N", "e", "u", "r", "a", "l">>

\* decoded answers to a single-name prompt
TopicNameDocs ==
    {Dict(<<<<topic_name, v>>, <<topic_specificity, Num>>>>) :
        v \in {Str(neural), Num}}
    \cup {Dict(<<<<topic_specificity, Num>>, <<topic_name, v>>>>) :
        v \in {Str(neural), Str(<<>>)}}
    \cup {Dict(<<<<less_specific_topic_name, Str(<<"a">>)>>,
                 <<topic_name, Str(neural)>>,
                 <<topic_specificity, Num>>>>),
          Dict(<<<<topic_name, Str(neural)>>>>),
          Dict(<<<<topic_specificity, Num>>>>),
          Dict(<<<<less_specific_topic_name, Str(neural)>>>>),
          Dict(<<>>), List(<<Str(topic_name)>>), Str(topic_name), Num, Null}

OldNames == {Str(<<"a">>), Str(<<"B">>)}

\* the elements of a decoded answer to a remediation prompt
Entries ==
    {Dict(<<<<k, v>>>>) : k \in {<<"A">>, <<"b">>, <<"x">>},
                          v \in {Str(<<"x">>), Str(<<"y">>)}}
    \cup {Dict(<<<<<<"x">>, Str(<<"y">>)>>, <<<<"A">>, Str(<<"x">>)>>>>),
          Dict(<<>>), Num}

\* decoded answers to a remediation prompt
ClusterDocs ==
    {List(es) : es \in BoundedSeq(Entries, MaxEntries)}
    \cup {Dict(<<<<<<"A">>, Str(<<"x">>)>>>>), Dict(<<>>),
          Str(<<"a", "B">>), Str(<<>>), Num, Null}

\* a backend rejects every request made with an unauthorized key or an
\* unknown model
Answers(w, texts) ==
    IF Invalid(w.params) THEN {Failure}
    ELSE {Failure} \cup {Response(t) : t \in texts}

(* ---------------------------- the state machine ------------------------ *)

VARIABLES
    wrapper,    \* the adapter object: its class, how construction ended,
                \* and the constructor arguments
    op,         \* the method that ran last ("none" once its result is
                \* dropped)
    old_names,  \* the old_names argument of that method
    response,   \* what the backend did on the naming request
    outcome     \* backend calls made, exception escaped, value returned

vars == <<wrapper, op, old_names, response, outcome>>

NoParams == [path_exists |-> TRUE, key_ok |-> TRUE, model_ok |-> TRUE]
NoWrapper == [cls |-> "", status |-> "none", params |-> NoParams]
NoResponse == [kind |-> "none", text |-> <<>>]
NoOutcome == Returned(<<>>, Null)

Init ==
    /\ wrapper = NoWrapper
    /\ op = "none"
    /\ old_names = <<>>
    /\ response = NoResponse
    /\ outcome = NoOutcome

\* cls(**params)
Construct ==
    /\ wrapper.status = "none"
    /\ op = "none"
    /\ \E cls \in Classes : \E params \in ParamsOf(cls) :
          /\ outcome' = init(cls, params)
          /\ wrapper' = [cls |-> cls,
                         status |-> IF init(cls, params).raised = ""
                                    THEN "constructed" ELSE "failed",
                         params |-> params]
    /\ op' = "__init__"
    /\ UNCHANGED <<old_names, response>>

\* wrapper.generate_topic_name(prompt)
GenerateTopicName ==
    /\ wrapper.status = "constructed"
    /\ op = "none"
    /\ \E r \in Answers(wrapper, IF wrapper.cls = "LlamaCppWrapper"
                                 THEN Completions
                                 ELSE {NotJson} \cup
                                      {JsonText(d) : d \in TopicNameDocs}) :
          /\ response' = r
          /\ outcome' = generate_topic_name(wrapper.cls, r)
    /\ op' = "generate_topic_name"
    /\ UNCHANGED <<wrapper, old_names>>

\* wrapper.generate_topic_cluster_names(prompt, old_names)
GenerateTopicClusterNames ==
    /\ wrapper.status = "constructed"
    /\ op = "none"
    /\ \E names \in BoundedSeq(OldNames, MaxNames) :
       \E r \in Answers(wrapper, {NotJson} \cup
                                 {JsonText(d) : d \in ClusterDocs}) :
          /\ old_names' = names
          /\ response' = r
          /\ outcome' = generate_topic_cluster_names(wrapper.cls, r, names)
    /\ op' = "generate_topic_cluster_names"
    /\ UNCHANGED wrapper

\* the caller drops the result; an object whose constructor raised never
\* exists
Discard ==
    /\ op # "none"
    /\ op' = "none"
    /\ old_names' = <<>>
    /\ response' = NoResponse
    /\ outcome' = NoOutcome
    /\ wrapper' = IF wrapper.status = "failed" THEN NoWrapper ELSE wrapper

Next ==
    \/ Construct
    \/ GenerateTopicName
    \/ GenerateTopicClusterNames
    \/ Discard

Spec == Init /\ [][Next]_vars

(* ------------------------------- properties ---------------------------- *)

\* equality of two Python values that are strings, numbers or None
SameValue(a, b) == a.type = b.type /\ a.items = b.items

\* v is a list holding exactly the values of names, in order
SameList(v, names) ==
    /\ v.type = "array"
    /\ Len(v.items) = Len(names)
    /\ \A i \in 1..Len(names) : SameValue(v.items[i], names[i])

NamingCalls(calls) == SelectSeq(calls, LAMBDA c : c \in NamingEndpoints)

Undecodable == response.kind = "text" /\ ~response.text.decodable
Decoded == response.kind = "text" /\ response.text.decodable

\* C1: when the backend text fails to decode as JSON,
\* generate_topic_cluster_names of every adapter returns exactly old_names
\* and raises nothing.
C1_UndecodableReturnsOldNames ==
    (op = "generate_topic_cluster_names" /\ Undecodable)
        => /\ outcome.raised = ""
           /\ SameList(outcome.value, old_names)

C1_Witness ==
    /\ op = "generate_topic_cluster_names"
    /\ Undecodable
    /\ wrapper.cls = "CohereWrapper"
    /\ Len(old_names) = MaxNames
    /\ SameList(outcome.value, old_names)

\* C2: for every adapter, old_names and backend response, the list returned
\* by generate_topic_cluster_names is as long as old_names.
C2_ResultLengthIsLenOldNames ==
    (op = "generate_topic_cluster_names"
        /\ (Undecodable \/ (Decoded /\ response.text.doc.type = "array")))
        => /\ outcome.raised = ""
           /\ outcome.value.type = "array"
           /\ Len(outcome.value.items) = Len(old_names)

\* the decoded answer is an array with one single-key object per old name,
\* the i-th key equal to old_names[i] ignoring case
WellFormedRenaming ==
    /\ Decoded
    /\ response.text.doc.type = "array"
    /\ Len(response.text.doc.items) = Len(old_names)
    /\ \A i \in 1..Len(old_names) :
          LET m == response.text.doc.items[i]
          IN  /\ m.type = "object"
              /\ Len(m.items) = 1
              /\ lower(m.items[1][1]) = lower(old_names[i].items)

\* C3: on a well-formed renaming answer, generate_topic_cluster_names of
\* every adapter returns the list whose i-th element is the value of the
\* i-th object.
C3_WellFormedAnswerGivesNewNames ==
    (op = "generate_topic_cluster_names" /\ WellFormedRenaming)
        => /\ outcome.raised = ""
           /\ SameList(outcome.value,
                       [i \in 1..Len(old_names) |->
                           response.text.doc.items[i].items[1][2]])

HasTopicName(doc) ==
    /\ doc.type = "object"
    /\ \E i \in 1..Len(doc.items) : doc.items[i][1] = topic_name

\* a single-name answer that is not JSON, or a JSON object without the key
\* topic_name
MalformedTopicName ==
    \/ Undecodable
    \/ /\ Decoded
       /\ response.text.doc.type = "object"
       /\ ~HasTopicName(response.text.doc)

\* C4: on a malformed single-name response, generate_topic_name of every
\* hosted adapter returns the empty string and raises nothing.
C4_MalformedGivesEmptyString ==
    (op = "generate_topic_name" /\ wrapper.cls \in Hosted
        /\ MalformedTopicName)
        => /\ outcome.raised = ""
           /\ SameValue(outcome.value, Str(<<>>))

\* C5: when the backend request itself fails, no exception escapes a hosted
\* adapter: generate_topic_name returns the empty string and
\* generate_topic_cluster_names returns old_names.
C5_RequestFailureIsMasked ==
    (wrapper.cls \in Hosted /\ response.kind = "raise")
        => /\ outcome.raised = ""
           /\ op = "generate_topic_name"
                => SameValue(outcome.value, Str(<<>>))
           /\ op = "generate_topic_cluster_names"
                => SameList(outcome.value, old_names)

\* C6: when the response decodes to a JSON object holding the key
\* topic_name, generate_topic_name of every hosted adapter returns exactly
\* the value of that key, whatever other keys the object holds.
C6_TopicNameValueReturned ==
    (op = "generate_topic_name" /\ wrapper.cls \in Hosted /\ Decoded
        /\ HasTopicName(response.text.doc))
        => /\ outcome.raised = ""
           /\ \E i \in 1..Len(response.text.doc.items) :
                 /\ response.text.doc.items[i][1] = topic_name
                 /\ SameValue(outcome.value, response.text.doc.items[i][2])

C6_Witness ==
    /\ op = "generate_topic_name"
    /\ wrapper.cls = "OpenAIWrapper"
    /\ Decoded
    /\ HasTopicName(response.text.doc)
    /\ Len(response.text.doc.items) = 3
    /\ response.text.doc.items[1][1] # topic_name
    /\ SameValue(outcome.value, Str(neural))

\* C7 as stated: for each of the four backends, constructing with an invalid
\* model path, an unknown model name or an unauthorized API key raises at
\* construction and sends no naming request.
C7_InvalidConstructionRaises ==
    (op = "__init__" /\ Invalid(wrapper.params))
        => /\ outcome.raised # ""
           /\ NamingCalls(outcome.calls) = <<>>

\* C7 amended: LlamaCppWrapper (missing or unloadable model file) and
\* CohereWrapper (unauthorized key, unknown model) raise at construction;
\* AnthropicWrapper and OpenAIWrapper validate nothing and return normally;
\* no constructor sends a naming request, and no naming method runs on an
\* object whose constructor raised.
C7_ConstructionValidation ==
    /\ (op = "__init__" /\ Invalid(wrapper.params))
          => /\ wrapper.cls \in {"LlamaCppWrapper", "CohereWrapper"}
                  => (outcome.raised # "" /\ wrapper.status = "failed")
             /\ wrapper.cls \in {"AnthropicWrapper", "OpenAIWrapper"}
                  => (outcome.raised = "" /\ wrapper.status = "constructed")
    /\ op = "__init__" => NamingCalls(outcome.calls) = <<>>
    /\ wrapper.status = "failed" => op = "__init__"

C7_Witness ==
    /\ op = "__init__"
    /\ wrapper.cls = "CohereWrapper"
    /\ wrapper.params.key_ok
    /\ ~wrapper.params.model_ok
    /\ outcome.raised = "ValueError"
    /\ outcome.calls = <<"models.get", "models.list">>

\* C8: every call of generate_topic_name or generate_topic_cluster_names, of
\* every adapter, sends exactly one naming request to the backend whatever
\* the outcome (request failed, text undecodable, or success).
C8_OneRequestPerCall ==
    op \in {"generate_topic_name", "generate_topic_cluster_names"}
        => Len(NamingCalls(outcome.calls)) = 1

C8_Witness ==
    /\ op = "generate_topic_name"
    /\ wrapper.cls = "AnthropicWrapper"
    /\ response.kind = "raise"
    /\ outcome.raised = ""
    /\ outcome.calls = <<"messages.create">>

\* the decoded answer is an array whose i-th element is a mapping with a
\* first key that differs from old_names[i] even ignoring case
MismatchAt(i) ==
    /\ Decoded
    /\ response.text.doc.type = "array"
    /\ i <= Len(response.text.doc.items)
    /\ i <= Len(old_names)
    /\ response.text.doc.items[i].type = "object"
    /\ response.text.doc.items[i].items # <<>>
    /\ lower(response.text.doc.items[i].items[1][1])
          # lower(old_names[i].items)

\* position i of the returned list holds v
ReturnedAt(i, v) ==
    /\ outcome.raised = ""
    /\ outcome.value.type = "array"
    /\ i <= Len(outcome.value.items)
    /\ SameValue(outcome.value.items[i], v)

\* C9 as stated: for every adapter, at a position whose mapping key differs
\* from the old name, the returned list keeps the old name.
C9_MismatchKeepsOldName ==
    op = "generate_topic_cluster_names"
        => \A i \in 1..Len(old_names) :
              MismatchAt(i) => ReturnedAt(i, old_names[i])

\* C9 amended: LlamaCppWrapper, AnthropicWrapper and OpenAIWrapper keep
\* old_names[i] at a position whose mapping key differs from the old name;
\* CohereWrapper puts the value of that mapping there.
C9_MismatchPerAdapter ==
    op = "generate_topic_cluster_names"
        => \A i \in 1..Len(old_names) :
              MismatchAt(i) =>
                 IF wrapper.cls = "CohereWrapper"
                 THEN ReturnedAt(i, response.text.doc.items[i].items[1][2])
                 ELSE ReturnedAt(i, old_names[i])

C9_Witness ==
    /\ op = "generate_topic_cluster_names"
    /\ wrapper.cls = "OpenAIWrapper"
    /\ Len(old_names) = 2
    /\ MismatchAt(1)
    /\ MismatchAt(2)
    /\ SameList(outcome.value, old_names)

LocalTopicName ==
    /\ op = "generate_topic_name"
    /\ wrapper.cls = "LlamaCppWrapper"
    /\ response.kind = "text"

NoNewline(s) == \A i \in 1..Len(s) : s[i] # "\n"

NoEdgeWhitespace(s) ==
    s = <<>> \/ (~isspace(s[1]) /\ ~isspace(s[Len(s)]))

NoEdgePunctuation(s) ==
    s = <<>> \/ (s[1] \notin punctuation /\ s[Len(s)] \notin punctuation)

\* the first line that remains after leading newlines and spaces are removed
FirstLine(text) == split_first(lstrip(text, {"\n", " "}), "\n")

\* C10 as stated: the name LlamaCppWrapper.generate_topic_name returns has no
\* newline, no leading or trailing whitespace or punctuation, and equals the
\* capitalised-words form of the first line left after leading newlines and
\* spaces are removed.
C10_CleanedName ==
    LocalTopicName
        => /\ outcome.raised = ""
           /\ NoNewline(outcome.value.items)
           /\ NoEdgeWhitespace(outcome.value.items)
           /\ NoEdgePunctuation(outcome.value.items)
           /\ outcome.value.items = capwords(FirstLine(response.text))

\* C10 amended: the name has no newline and no leading or trailing
\* whitespace, and equals the capitalised-words form of that first line with
\* its leading and trailing string.punctuation and string.whitespace
\* characters stripped; it has no leading or trailing punctuation when the
\* text holds no whitespace character outside string.whitespace.
C10_CleanedStrippedName ==
    LocalTopicName
        => /\ outcome.raised = ""
           /\ outcome.value.type = "string"
           /\ NoNewline(outcome.value.items)
           /\ NoEdgeWhitespace(outcome.value.items)
           /\ outcome.value.items =
                 capwords(strip(FirstLine(response.text),
                                punctuation \cup whitespace))
           /\ (\A i \in 1..Len(response.text) :
                  isspace(response.text[i])
                     => response.text[i] \in whitespace)
                 => NoEdgePunctuation(outcome.value.items)

C10_Witness ==
    /\ LocalTopicName
    /\ \E i \in 1..Len(response.text) : response.text[i] = "\n"
    /\ \E i \in 1..Len(response.text) : response.text[i] = "."
    /\ outcome.value = Str(<<"A">>)

====
